---- MODULE Spec2Model ----
(***************************************************************************)
(* A model of asciidoc_mcp.asciidoc_processor.AsciiDocProcessor.           *)
(*                                                                         *)
(* One call of one entry point is modelled per behaviour: Init draws the   *)
(* entry point (op), its arguments and the file system the call runs       *)
(* against; the actions are the steps of that call.  Files are read-only   *)
(* for the processor, so fs never changes.                                 *)
(*                                                                         *)
(* Abstractions.  A path string is a record [file, form]: the file it      *)
(* names and the way it is spelled ("canon" the resolved absolute path,    *)
(* "alt" an absolute but non-normalised spelling such as one through `..`  *)
(* or a symlink, "rel" a relative spelling).  A document read by           *)
(* analyze_document_structure, find_includes or extract_metadata is the    *)
(* sequence of its lines, each classified by the pattern of the Pattern    *)
(* Set it matches (a line of heading markers only and an attribute line    *)
(* with no value are kinds of their own, because the patterns' white space *)
(* runs over line ends there; a blank line is an empty one); a document    *)
(* read by search_content is its raw text, a                               *)
(* sequence of characters.  Offsets into a document (a heading's           *)
(* `position`) are therefore not represented, a heading's title is named   *)
(* by the line it stands on, and of the statistics and file_info only the  *)
(* line count and the size are kept.                                       *)
(*                                                                         *)
(* Each definition named "Faulty variant" is the definition after it with  *)
(* one plausible slip; the properties are expected to tell them apart.     *)
(***************************************************************************)
EXTENDS Integers, Sequences, FiniteSets, TLC

VARIABLES
    op,              \* the entry point being called
    pc,              \* position of the call
    file_path,       \* argument file_path (a path string, or NoPath)
    flag,            \* include_content / recursive / case_sensitive
    query,           \* argument query of search_content
    fs,              \* the file system: file -> [exists, readable, content]
    reads,           \* the files read_text was called on, in order
    outcome,         \* what the caller gets: NoResult until the call returns
    headings,        \* _build_hierarchy: the heading records given
    hIdx,            \* _build_hierarchy: index of the next heading of the loop
    stack,           \* _build_hierarchy: stack of open nodes (node ids)
    hierarchy,       \* _build_hierarchy: top-level nodes (node ids)
    children,        \* _build_hierarchy: node id -> its children list
    processed_files, \* find_includes: the set of path strings already walked
    callStack,       \* find_includes: the activations of find_includes_in_file
    files_to_search, \* search_content: the paths to search, in order
    sIdx,            \* search_content: index of the next path of the loop
    files_searched,  \* search_content: the paths read so far
    results          \* search_content: the Search Results so far

vars == <<op, pc, file_path, flag, query, fs, reads, outcome,
          headings, hIdx, stack, hierarchy, children,
          processed_files, callStack,
          files_to_search, sIdx, files_searched, results>>

argVars  == <<op, file_path, flag, query, fs>>
hierVars == <<headings, hIdx, stack, hierarchy, children>>
incVars  == <<processed_files, callStack>>
srchVars == <<files_to_search, sIdx, files_searched, results>>

-----------------------------------------------------------------------------
(* Bounds of the model                                                     *)

MaxLevel    == 3    \* heading levels are 1..MaxLevel
MaxHeadings == 4    \* headings given to _build_hierarchy
MaxDocLines == 3    \* lines of a document given to analyze_document_structure
MaxIncLines == 3    \* lines of all documents given to find_includes, together
MaxChars    == 3    \* characters of all texts given to search_content, together
MaxQueryLen == 2    \* characters of a query
MaxMetaLines == 2   \* lines of a document given to extract_metadata
MaxChain    == 12   \* files of a chain of includes given to find_includes

-----------------------------------------------------------------------------
(* Generic helpers                                                         *)

SeqsUpTo(S, n) == UNION {[1..k -> S] : k \in 0..n}

Last(s) == s[Len(s)]

Front(s) == SubSeq(s, 1, Len(s) - 1)

RECURSIVE Concat(_)
Concat(ss) == IF ss = <<>> THEN <<>> ELSE Head(ss) \o Concat(Tail(ss))

NoPath   == [file |-> "none", form |-> "none"]
NoResult == [kind |-> "pending"]

Returned(v) == [kind |-> "return", value |-> v]

Files == {"A", "B"}

Missing == [exists |-> FALSE, readable |-> FALSE, content |-> <<>>]

\* A file that is present but that read_text fails on (undecodable bytes, an
\* IO fault): nothing of its content is ever seen.
Unreadable == [exists |-> TRUE, readable |-> FALSE, content |-> <<>>]

\* The states a file can be in: absent, unreadable, or readable with some
\* content.
FileStates(Contents) ==
    {Missing, Unreadable} \cup
    {[exists |-> TRUE, readable |-> TRUE, content |-> c] : c \in Contents}

\* Faulty variant: the existence check always passes.
ExistsAlways(p) == TRUE

\* Path(p).exists()
Exists(p) == p.file \in DOMAIN fs /\ fs[p.file].exists

\* Path(p).read_text(encoding='utf-8'): the text, or a decode / IO fault.
ReadText(p) ==
    IF Exists(p) /\ fs[p.file].readable
    THEN [ok |-> TRUE, content |-> fs[p.file].content]
    ELSE [ok |-> FALSE, fault |-> <<"cannot read", p>>]

\* return {"error": f"File not found: {file_path}"}
NotFound(p) == Returned([error |-> <<"File not found: ", p>>])

\* The entry points' `except Exception as e: return {"error": str(e)}`.
Recover(e) == Returned([error |-> e])

CanonPath(f) == [file |-> f, form |-> "canon"]

-----------------------------------------------------------------------------
(* _build_hierarchy                                                        *)

\* A heading record as analyze_document_structure builds it.  The title is
\* the text of the heading's line, identified by the line it stands on.
HeadingRecord(level, line) ==
    [level |-> level, title |-> <<"title", line>>, line_number |-> line]

\* Faulty variant: the children list is prepended to, not appended to.
AppendChildFront(ch, parent, n) == [ch EXCEPT ![parent] = <<n>> \o @]

\* stack[-1]["children"].append(heading_with_children)
AppendChild(ch, parent, n) == [ch EXCEPT ![parent] = Append(@, n)]

\* The position-ordered heading sequences given to _build_hierarchy: any
\* levels, strictly increasing line numbers.
HeadingSeqs ==
    {[i \in 1..Len(ls) |-> HeadingRecord(ls[i], i)] :
        ls \in SeqsUpTo(1..MaxLevel, MaxHeadings)}

\* Faulty variant: an `if` in place of the `while`, at most one node is popped.
PopOnce(st, level) ==
    IF st # <<>> /\ headings[Last(st)].level >= level
    THEN Front(st)
    ELSE st

\* Faulty variant: the loop pops on > instead of >=.
RECURSIVE PopWhileStrict(_, _)
PopWhileStrict(st, level) ==
    IF st # <<>> /\ headings[Last(st)].level > level
    THEN PopWhileStrict(Front(st), level)
    ELSE st

\* while stack and stack[-1]["level"] >= level: stack.pop()
RECURSIVE PopWhile(_, _)
PopWhile(st, level) ==
    IF st # <<>> /\ headings[Last(st)].level >= level
    THEN PopWhile(Front(st), level)
    ELSE st

\* Faulty variant: the node is attached under stack[0], not stack[-1].
AttachPointBottom(st) == IF st # <<>> THEN st[1] ELSE 0

\* The node a heading is attached under, given the stack after popping:
\* the stack's top, or 0 for the top level.
AttachPoint(st) == IF st # <<>> THEN Last(st) ELSE 0

\* One iteration of `for heading in headings`.  Node hIdx is the copy of
\* headings[hIdx] with its own, empty, children list.
BuildStep ==
    /\ pc = "build"
    /\ hIdx <= Len(headings)
    /\ LET level  == headings[hIdx].level
           popped == PopWhile(stack, level)
           parent == AttachPoint(popped)
       IN  /\ children' =
                 IF parent # 0
                 THEN AppendChild(children, parent, hIdx)
                 ELSE children
           /\ hierarchy' = IF parent # 0 THEN hierarchy
                                         ELSE Append(hierarchy, hIdx)
           /\ stack' = Append(popped, hIdx)
    /\ hIdx' = hIdx + 1
    /\ UNCHANGED <<argVars, pc, reads, outcome, headings, incVars, srchVars>>

\* The nested value a node id stands for: the heading's fields plus children.
\* heading.copy() with the key "children" added.
WithChildren(h, cs) ==
    [k \in DOMAIN h \cup {"children"} |->
        IF k = "children" THEN cs ELSE h[k]]

RECURSIVE Node(_)
Node(n) ==
    WithChildren(headings[n],
                 [i \in 1..Len(children[n]) |-> Node(children[n][i])])

Forest == [i \in 1..Len(hierarchy) |-> Node(hierarchy[i])]

\* `return hierarchy` of a direct call (as the unit test calls it).
BuildReturn ==
    /\ op = "build"
    /\ pc = "build"
    /\ hIdx > Len(headings)
    /\ outcome' = Returned(Forest)
    /\ pc' = "done"
    /\ UNCHANGED <<argVars, reads, hierVars, incVars, srchVars>>

-----------------------------------------------------------------------------
(* Documents as sequences of classified lines                              *)

TextLine         == [kind |-> "text"]
HeadingLine(l)   == [kind |-> "heading", level |-> l]
AttrLine(n, v)   == [kind |-> "attr", name |-> n, value |-> v]
IncludeLine(t)   == [kind |-> "include", target |-> t]
BlankLine        == [kind |-> "blank"]
MarkerLine(l)    == [kind |-> "marker", level |-> l]

IsHeading(ln) == ln.kind = "heading"

\* The line on which a match of `^(=+)\s+(.+)$` that starts on line n ends,
\* 0 when none starts there.  A heading line is matched whole.  On a line
\* of heading markers only (a block delimiter such as ====), \s+ runs over
\* the line end and the empty lines that follow, and the title is the next
\* line that is not empty, whatever that line is.
HeadingMatchEnd(doc, n) ==
    LET later == {m \in (n + 1)..Len(doc) : doc[m].kind # "blank"}
    IN  IF IsHeading(doc[n]) THEN n
        ELSE IF doc[n].kind = "marker" /\ later # {}
             THEN CHOOSE m \in later : \A k \in later : m <= k
        ELSE 0

\* heading_pattern.finditer(content, pos) from the start of line `from` on:
\* the lines the matches start on, in order.  The scan goes on after the
\* end of each match.
RECURSIVE HeadingMatches(_, _)
HeadingMatches(doc, from) ==
    IF from > Len(doc) THEN <<>>
    ELSE IF HeadingMatchEnd(doc, from) # 0
         THEN <<from>> \o HeadingMatches(doc, HeadingMatchEnd(doc, from) + 1)
         ELSE HeadingMatches(doc, from + 1)

Min(S) == CHOOSE x \in S : \A y \in S : x <= y
Max(S) == CHOOSE x \in S : \A y \in S : x >= y

\* The line numbers of a document, in order; pattern.finditer(content)
\* yields those of the lines the pattern matches.
LineNumbers(doc) == [i \in 1..Len(doc) |-> i]

\* The heading marker of a level: that many = characters.
RECURSIVE Marker(_)
Marker(level) == IF level = 0 THEN "" ELSE "=" \o Marker(level - 1)

\* The text of a line of a document of attribute declarations, as written
\* and trimmed.
LineText(ln) ==
    CASE ln.kind = "attr"    -> IF ln.value = "" THEN ":" \o ln.name \o ":"
                                ELSE ":" \o ln.name \o ": " \o ln.value
      [] ln.kind = "heading" -> Marker(ln.level) \o " title"
      [] ln.kind = "blank"   -> ""
      [] OTHER               -> "text"

\* The line on which a match of `:name:\s*(.*)$` that starts on the
\* attribute line n ends.  \s* runs over line ends: when nothing but white
\* space follows the name on line n, the match goes on to the end of the
\* next line that is not blank (to the end of the text when there is none).
AttrMatchEnd(doc, n) ==
    LET later == {m \in (n + 1)..Len(doc) : doc[m].kind # "blank"}
    IN  IF doc[n].value # "" THEN n
        ELSE IF later = {} THEN Len(doc)
        ELSE Min(later)

\* match.group(2).strip() of that match: the rest of line n, or, when that
\* is empty, the text of the line the match ends on.
AttrMatchValue(doc, n) ==
    IF AttrMatchEnd(doc, n) = n \/ doc[AttrMatchEnd(doc, n)].kind = "blank"
    THEN doc[n].value
    ELSE LineText(doc[AttrMatchEnd(doc, n)])

\* _extract_document_title: the first match of `^=\s+(.+)$`, else the first
\* match of `^:title:\s*(.+)$`, else "".
ExtractDocumentTitle(doc) ==
    LET h1(i) == HeadingMatchEnd(doc, i) # 0 /\ doc[i].level = 1
        ta(i) == /\ doc[i].kind = "attr"
                 /\ doc[i].name = "title"
                 /\ AttrMatchValue(doc, i) # ""
        hs == SelectSeq(LineNumbers(doc), h1)
        ts == SelectSeq(LineNumbers(doc), ta)
    IN  IF hs # <<>> THEN <<"title", HeadingMatchEnd(doc, hs[1])>>
        ELSE IF ts # <<>> THEN AttrMatchValue(doc, ts[1])
        ELSE ""

-----------------------------------------------------------------------------
(* analyze_document_structure                                              *)

\* Lines 58-66: the line before which the content of the heading matched
\* from line n on ends: the start of the first match after it of the same
\* or a higher level, else the end of the document.
ContentEnd(doc, n) ==
    LET after   == HeadingMatches(doc, HeadingMatchEnd(doc, n) + 1)
        closing == {after[k] : k \in {j \in DOMAIN after :
                                         doc[after[j]].level <= doc[n].level}}
    IN  IF closing = {} THEN Len(doc) + 1 ELSE Min(closing)

\* content[content_start:content_end].strip() for the text of the lines
\* lo..hi of doc: the lines, named by their numbers, without the blank ones
\* at either end.
RECURSIVE StripSlice(_, _, _)
StripSlice(doc, lo, hi) ==
    IF lo > hi THEN <<>>
    ELSE IF doc[lo].kind = "blank" THEN StripSlice(doc, lo + 1, hi)
    ELSE IF doc[hi].kind = "blank" THEN StripSlice(doc, lo, hi - 1)
    ELSE [i \in 1..(hi - lo + 1) |-> lo + i - 1]

\* heading_info for the heading matched from line n on; the title is named
\* by the line its text stands on, the section content is the lines it
\* spans, identified by their line numbers.
HeadingInfo(doc, n, include_content) ==
    LET info == [level       |-> doc[n].level,
                 title       |-> <<"title", HeadingMatchEnd(doc, n)>>,
                 line_number |-> n]
    IN  IF include_content
        THEN [k \in DOMAIN info \cup {"content"} |->
                 IF k = "content"
                 THEN StripSlice(doc, HeadingMatchEnd(doc, n) + 1,
                                 ContentEnd(doc, n) - 1)
                 ELSE info[k]]
        ELSE info

ExtractHeadings(doc, include_content) ==
    LET hs == HeadingMatches(doc, 1)
    IN  [k \in 1..Len(hs) |-> HeadingInfo(doc, hs[k], include_content)]

\* Lines 35-71: the existence check, the read and the heading scan, up to
\* the call of _build_hierarchy.  A fault of the read is caught by the
\* handler's except clause.
AnalyzeCall ==
    /\ op = "analyze"
    /\ pc = "start"
    /\ IF ~Exists(file_path)
       THEN /\ outcome' = NotFound(file_path)
            /\ pc' = "done"
            /\ UNCHANGED <<reads, hierVars>>
       ELSE LET r == ReadText(file_path)
            IN  /\ reads' = Append(reads, file_path.file)
                /\ IF ~r.ok
                   THEN /\ outcome' = Recover(r.fault)
                        /\ pc' = "done"
                        /\ UNCHANGED hierVars
                   ELSE LET hs == ExtractHeadings(r.content, flag)
                        IN  /\ headings' = hs
                            /\ hIdx' = 1
                            /\ stack' = <<>>
                            /\ hierarchy' = <<>>
                            /\ children' = [n \in 1..Len(hs) |-> <<>>]
                            /\ pc' = "build"
                            /\ UNCHANGED outcome
    /\ UNCHANGED <<argVars, incVars, srchVars>>

\* Lines 74-86: _build_hierarchy has returned; the result is assembled.
AnalyzeReturn ==
    /\ op = "analyze"
    /\ pc = "build"
    /\ hIdx > Len(headings)
    /\ LET doc == fs[file_path.file].content
       IN  outcome' = Returned(
               [file_path      |-> file_path,
                title          |-> ExtractDocumentTitle(doc),
                total_headings |-> Len(headings),
                structure      |-> Forest,
                statistics     |-> [lines |-> IF doc = <<>> THEN 1 ELSE Len(doc)]])
    /\ pc' = "done"
    /\ UNCHANGED <<argVars, reads, hierVars, incVars, srchVars>>

-----------------------------------------------------------------------------
(* find_includes                                                           *)

MaxDepth == 10

PathForms == {"canon", "alt", "rel"}

\* Path(p).is_absolute()
IsAbsolute(p) == p.form # "rel"

\* Path.resolve(): the absolute, normalised spelling of the same file.
Resolve(p) == [file |-> p.file, form |-> "canon"]

\* Lines 126-129: a relative target is joined to the including file's
\* directory and resolved; an absolute one is taken as written.
ResolveInclude(include_path) ==
    IF ~IsAbsolute(include_path) THEN Resolve(include_path) ELSE include_path

\* Lines 122-138: include_info of the directive on line n of doc, read from
\* current_path at the given depth.
IncludeInfo(current_path, depth, doc, n) ==
    LET include_path  == doc[n].target
        resolved_path == ResolveInclude(include_path)
    IN  [path          |-> include_path,
         resolved_path |-> resolved_path,
         exists        |-> Exists(resolved_path),
         line_number   |-> n,
         depth         |-> depth,
         parent_file   |-> current_path]

\* Faulty variant: the depth limit is off by one.
DescendOneTooDeep(info) == flag /\ info.exists /\ info.depth <= MaxDepth

\* Faulty variant: the walk descends whether or not `recursive` is set.
AlwaysDescend(info) == info.exists /\ info.depth < MaxDepth

\* Line 141: if recursive and resolved_path.exists() and depth < 10
ShouldDescend(info) == flag /\ info.exists /\ info.depth < MaxDepth

\* Faulty variant: the walk no longer looks its path up in processed_files.
NeverProcessed(p) == FALSE

\* Line 112: if str(current_path) in processed_files
AlreadyProcessed(p) == p \in processed_files

\* include_info["nested_includes"] = nested_includes
WithNested(info, nested) ==
    [k \in DOMAIN info \cup {"nested_includes"} |->
        IF k = "nested_includes" THEN nested ELSE info[k]]

\* An activation of find_includes_in_file(current_path, depth) that has not
\* run yet.
NewFrame(current_path, depth) ==
    [path |-> current_path, depth |-> depth, stage |-> "enter",
     doc |-> <<>>, dirs |-> <<>>, i |-> 1, file_includes |-> <<>>]

\* Lines 155-160: the result of find_includes.  list(processed_files) has
\* the set's elements in no specified order: it is kept as the set.
IncludesResult(includes, pf) ==
    Returned([file_path       |-> file_path,
              total_includes  |-> Len(includes),
              includes        |-> includes,
              processed_files |-> pf])

\* find_includes_in_file returns value; rest are the activations below it
\* and pf is processed_files at that moment.  The calling activation stores
\* the value as nested_includes of the directive it is at, appends the
\* directive's record and moves on (lines 142-145); with no caller the value
\* is `includes` of line 153 and find_includes returns.
ReturnTo(rest, value, pf) ==
    IF rest = <<>>
    THEN /\ outcome' = IncludesResult(value, pf)
         /\ pc' = "done"
         /\ callStack' = <<>>
    ELSE LET caller == Last(rest)
             info   == IncludeInfo(caller.path, caller.depth, caller.doc,
                                   caller.dirs[caller.i])
         IN  /\ callStack' =
                   Append(Front(rest),
                          [caller EXCEPT
                              !.file_includes =
                                  Append(@, WithNested(info, value)),
                              !.i = @ + 1])
             /\ UNCHANGED <<pc, outcome>>

\* Faulty variant: a fault of read_text escapes find_includes_in_file and is caught
\* by find_includes' own except clause, which ends the call with an error.
WalkFaultAborts(rest, fault, pf) ==
    /\ outcome' = Recover(fault)
    /\ pc' = "done"
    /\ callStack' = <<>>

\* Lines 149-151: except Exception: return []
WalkFault(rest, fault, pf) == ReturnTo(rest, <<>>, pf)

\* Lines 103-109 and the call of line 153.
IncludesCall ==
    /\ op = "includes"
    /\ pc = "start"
    /\ IF ~Exists(file_path)
       THEN /\ outcome' = NotFound(file_path)
            /\ pc' = "done"
            /\ UNCHANGED callStack
       ELSE /\ callStack' = <<NewFrame(file_path, 0)>>
            /\ pc' = "walk"
            /\ UNCHANGED outcome
    /\ UNCHANGED <<argVars, reads, hierVars, processed_files, srchVars>>

\* Lines 112-119: the start of find_includes_in_file, up to the loop.
WalkEnter ==
    /\ op = "includes"
    /\ pc = "walk"
    /\ callStack # <<>>
    /\ Last(callStack).stage = "enter"
    /\ LET top  == Last(callStack)
           rest == Front(callStack)
       IN  IF AlreadyProcessed(top.path)
           THEN /\ ReturnTo(rest, <<>>, processed_files)
                /\ UNCHANGED <<processed_files, reads>>
           ELSE LET r == ReadText(top.path)
                IN  /\ processed_files' = processed_files \cup {top.path}
                    /\ reads' = Append(reads, top.path.file)
                    /\ IF ~r.ok
                       THEN WalkFault(rest, r.fault, processed_files')
                       ELSE /\ callStack' =
                                  Append(rest,
                                         [top EXCEPT
                                             !.stage = "loop",
                                             !.doc = r.content,
                                             !.dirs = SelectSeq(
                                                 LineNumbers(r.content),
                                                 LAMBDA n :
                                                   r.content[n].kind = "include")])
                            /\ UNCHANGED <<pc, outcome>>
    /\ UNCHANGED <<argVars, hierVars, srchVars>>

\* Lines 121-145: one iteration of the loop over the include directives.
\* A directive that is descended into is completed when the call returns.
WalkDirective ==
    /\ op = "includes"
    /\ pc = "walk"
    /\ callStack # <<>>
    /\ Last(callStack).stage = "loop"
    /\ Last(callStack).i <= Len(Last(callStack).dirs)
    /\ LET top  == Last(callStack)
           info == IncludeInfo(top.path, top.depth, top.doc, top.dirs[top.i])
       IN  IF ShouldDescend(info)
           THEN callStack' =
                    Append(callStack, NewFrame(info.resolved_path, top.depth + 1))
           ELSE callStack' =
                    Append(Front(callStack),
                           [top EXCEPT !.file_includes = Append(@, info),
                                       !.i = @ + 1])
    /\ UNCHANGED <<argVars, pc, reads, outcome, hierVars, processed_files, srchVars>>

\* Line 147: return file_includes
WalkReturn ==
    /\ op = "includes"
    /\ pc = "walk"
    /\ callStack # <<>>
    /\ Last(callStack).stage = "loop"
    /\ Last(callStack).i > Len(Last(callStack).dirs)
    /\ ReturnTo(Front(callStack), Last(callStack).file_includes, processed_files)
    /\ UNCHANGED <<argVars, reads, hierVars, processed_files, srchVars>>

-----------------------------------------------------------------------------
(* search_content                                                          *)

\* The characters of a text: a lower-case letter, its upper-case form, a
\* blank, and the line separator.
NL    == "\n"
Chars == {"a", "A", " "}

Lower(c) == IF c = "A" THEN "a" ELSE c

IsSpace(c) == c = " " \/ c = NL

\* content.split('\n')
RECURSIVE SplitLines(_)
SplitLines(text) ==
    LET nls == {k \in 1..Len(text) : text[k] = NL}
    IN  IF nls = {} THEN <<text>>
        ELSE <<SubSeq(text, 1, Min(nls) - 1)>> \o
             SplitLines(SubSeq(text, Min(nls) + 1, Len(text)))

\* str.strip()
RECURSIVE Strip(_)
Strip(line) ==
    IF line # <<>> /\ IsSpace(Head(line)) THEN Strip(Tail(line))
    ELSE IF line # <<>> /\ IsSpace(Last(line)) THEN Strip(Front(line))
    ELSE line

\* re.compile(re.escape(query), flags) matches at offset pos of line: the
\* query's characters stand there, compared without case under IGNORECASE.
MatchAt(line, q, case_sensitive, pos) ==
    /\ pos + Len(q) <= Len(line)
    /\ \A j \in 1..Len(q) :
          IF case_sensitive THEN line[pos + j] = q[j]
          ELSE Lower(line[pos + j]) = Lower(q[j])

\* search_pattern.search(line)
PatternSearch(line, q, case_sensitive) ==
    \E pos \in 0..Len(line) : MatchAt(line, q, case_sensitive, pos)

\* [m.span() for m in search_pattern.finditer(line)] from offset `from` on:
\* the leftmost match, then the matches after its end.
RECURSIVE FindIter(_, _, _, _)
FindIter(line, q, case_sensitive, from) ==
    LET hits == {pos \in from..Len(line) : MatchAt(line, q, case_sensitive, pos)}
    IN  IF hits = {} THEN <<>>
        ELSE LET pos == Min(hits)
             IN  <<<<pos, pos + Len(q)>>>> \o
                 FindIter(line, q, case_sensitive,
                          IF Len(q) = 0 THEN pos + 1 ELSE pos + Len(q))

\* Lines 260-270: the Search Result of line i (1-based) of lines.
SearchResult(path, lines, i) ==
    [file            |-> path,
     line_number     |-> i,
     line            |-> Strip(lines[i]),
     context         |-> SubSeq(lines,
                                IF i - 2 < 1 THEN 1 ELSE i - 2,
                                IF i + 2 > Len(lines) THEN Len(lines) ELSE i + 2),
     match_positions |-> FindIter(lines[i], query, flag, 0)]

\* Lines 256-271: the results of one file's text, in line order.
FileResults(path, text) ==
    LET lines == SplitLines(text)
        hit   == SelectSeq(LineNumbers(lines),
                           LAMBDA i : PatternSearch(lines[i], query, flag))
    IN  [k \in 1..Len(hit) |-> SearchResult(path, lines, hit[k])]

\* The orders in which Path.cwd().rglob("*.adoc") can list a set of files.
Listings(S) ==
    {l \in SeqsUpTo(S, Cardinality(S)) :
        /\ Len(l) = Cardinality(S)
        /\ \A f \in S : \E k \in 1..Len(l) : l[k] = f}

\* Lines 233-248: the files to search.  With no file_path they are the
\* files under the working directory, in the order rglob lists them.
SearchCall ==
    /\ op = "search"
    /\ pc = "start"
    /\ IF file_path # NoPath
       THEN IF ~Exists(file_path)
            THEN /\ outcome' = NotFound(file_path)
                 /\ pc' = "done"
                 /\ UNCHANGED files_to_search
            ELSE /\ files_to_search' = <<file_path>>
                 /\ pc' = "scan"
                 /\ UNCHANGED outcome
       ELSE /\ files_to_search' \in
                 Listings({CanonPath(f) : f \in {g \in DOMAIN fs : fs[g].exists}})
            /\ pc' = "scan"
            /\ UNCHANGED outcome
    /\ UNCHANGED <<argVars, reads, hierVars, incVars,
                   sIdx, files_searched, results>>

\* Faulty variant: a fault while reading one file ends the whole search with an
\* error result.
SkipFileAborts(path, fault) ==
    /\ outcome' = Recover(fault)
    /\ pc' = "done"
    /\ UNCHANGED <<sIdx, files_searched, results>>

\* Lines 273-275: except Exception: continue
SkipFile(path, fault) ==
    /\ sIdx' = sIdx + 1
    /\ UNCHANGED <<pc, outcome, files_searched, results>>

\* Faulty variant: every match of a line gets a Search Result of its own.
ResultPerMatch(path, text) ==
    LET rs == FileResults(path, text)
    IN  Concat([k \in 1..Len(rs) |->
                   [j \in 1..Len(rs[k].match_positions) |->
                       [rs[k] EXCEPT !.match_positions = <<@[j]>>]]])

\* The results a file's text adds to `results`.
NewResults(path, text) == FileResults(path, text)

\* Lines 250-275: one iteration of the loop over files_to_search.
SearchFile ==
    /\ op = "search"
    /\ pc = "scan"
    /\ sIdx <= Len(files_to_search)
    /\ LET path == files_to_search[sIdx]
           r    == ReadText(path)
       IN  /\ reads' = Append(reads, path.file)
           /\ IF ~r.ok
              THEN SkipFile(path, r.fault)
              ELSE /\ files_searched' = Append(files_searched, path)
                   /\ results' = results \o NewResults(path, r.content)
                   /\ sIdx' = sIdx + 1
                   /\ UNCHANGED <<pc, outcome>>
    /\ UNCHANGED <<argVars, hierVars, incVars, files_to_search>>

\* Lines 277-283.
SearchReturn ==
    /\ op = "search"
    /\ pc = "scan"
    /\ sIdx > Len(files_to_search)
    /\ outcome' = Returned([query          |-> query,
                            case_sensitive |-> flag,
                            total_matches  |-> Len(results),
                            files_searched |-> files_searched,
                            results        |-> results])
    /\ pc' = "done"
    /\ UNCHANGED <<argVars, reads, hierVars, incVars, srchVars>>

-----------------------------------------------------------------------------
(* extract_metadata                                                        *)

\* attributes[attr_name] = attr_value
PutAttr(attributes, name, value) ==
    [k \in DOMAIN attributes \cup {name} |->
        IF k = name THEN value ELSE attributes[k]]

\* Lines 184-188: the loop over attribute_pattern.finditer(content), from
\* line n of doc on and with the map built so far.  The scan goes on after
\* the end of each match.
RECURSIVE Attributes(_, _, _)
Attributes(doc, n, attributes) ==
    IF n > Len(doc) THEN attributes
    ELSE IF doc[n].kind = "attr"
         THEN Attributes(doc, AttrMatchEnd(doc, n) + 1,
                         PutAttr(attributes, doc[n].name,
                                 AttrMatchValue(doc, n)))
         ELSE Attributes(doc, n + 1, attributes)

\* attributes.get(name, '')
GetAttr(attributes, name) ==
    IF name \in DOMAIN attributes THEN attributes[name] ELSE ""

\* Lines 176-219, the whole handler.  file_info is the file's size; the
\* time stamps of stat() are left out.
ExtractMetadata ==
    /\ op = "metadata"
    /\ pc = "start"
    /\ IF ~Exists(file_path)
       THEN /\ outcome' = NotFound(file_path)
            /\ UNCHANGED reads
       ELSE LET r == ReadText(file_path)
            IN  /\ reads' = Append(reads, file_path.file)
                /\ IF ~r.ok
                   THEN outcome' = Recover(r.fault)
                   ELSE LET attributes == Attributes(r.content, 1, <<>>)
                        IN  outcome' = Returned(
                                [file_path  |-> file_path,
                                 title      |-> ExtractDocumentTitle(r.content),
                                 author     |-> GetAttr(attributes, "author"),
                                 email      |-> GetAttr(attributes, "email"),
                                 revision   |-> GetAttr(attributes, "revnumber"),
                                 date       |-> GetAttr(attributes, "revdate"),
                                 attributes |-> attributes,
                                 file_info  |-> [size_bytes |-> Len(r.content)]])
    /\ pc' = "done"
    /\ UNCHANGED <<argVars, hierVars, incVars, srchVars>>

-----------------------------------------------------------------------------
(* Initial states and specifications                                       *)

AnalyzeDocs ==
    SeqsUpTo({TextLine, BlankLine} \cup
             {HeadingLine(l) : l \in 1..MaxLevel} \cup
             {MarkerLine(l) : l \in 1..MaxLevel},
             MaxDocLines)

NoHierLocals ==
    /\ headings = <<>>
    /\ hIdx = 1
    /\ stack = <<>>
    /\ hierarchy = <<>>
    /\ children = <<>>

NoIncLocals ==
    /\ processed_files = {}
    /\ callStack = <<>>

NoSearchLocals ==
    /\ files_to_search = <<>>
    /\ sIdx = 1
    /\ files_searched = <<>>
    /\ results = <<>>

InitAnalyze ==
    /\ op = "analyze"
    /\ pc = "start"
    /\ file_path = CanonPath("A")
    /\ flag \in BOOLEAN
    /\ query = <<>>
    /\ \E st \in FileStates(AnalyzeDocs) : fs = [f \in {"A"} |-> st]
    /\ reads = <<>>
    /\ outcome = NoResult
    /\ NoHierLocals
    /\ NoIncLocals
    /\ NoSearchLocals

InitHierLocals(hs) ==
    /\ headings = hs
    /\ hIdx = 1
    /\ stack = <<>>
    /\ hierarchy = <<>>
    /\ children = [n \in 1..Len(hs) |-> <<>>]

InitBuild ==
    /\ op = "build"
    /\ pc = "build"
    /\ file_path = NoPath
    /\ flag = FALSE
    /\ query = <<>>
    /\ fs = <<>>
    /\ reads = <<>>
    /\ outcome = NoResult
    /\ \E hs \in HeadingSeqs : InitHierLocals(hs)
    /\ NoIncLocals
    /\ NoSearchLocals

\* The targets written in include directives: relative, or absolute as
\* written (which need not be the resolved spelling).
IncTargets == {[file |-> f, form |-> fm] : f \in Files, fm \in {"rel", "alt"}}

IncLines == {TextLine} \cup {IncludeLine(t) : t \in IncTargets}

\* The file named by file_path is A; A and B hold at most MaxIncLines lines
\* together.  B is only ever reached from a readable A.
InitIncludes ==
    /\ op = "includes"
    /\ pc = "start"
    /\ file_path \in {[file |-> "A", form |-> fm] : fm \in PathForms}
    /\ flag \in BOOLEAN
    /\ query = <<>>
    /\ \E a \in FileStates(SeqsUpTo(IncLines, MaxIncLines)) :
       \E b \in IF a.readable
                THEN FileStates(SeqsUpTo(IncLines, MaxIncLines - Len(a.content)))
                ELSE {Missing} :
          fs = [f \in Files |-> IF f = "A" THEN a ELSE b]
    /\ reads = <<>>
    /\ outcome = NoResult
    /\ NoHierLocals
    /\ NoIncLocals
    /\ NoSearchLocals

\* The k-th file of a chain of includes.
ChainFile(k) == "F" \o ToString(k)

\* How a chain of includes ends: its last file holds no directive, includes
\* a file that does not exist, includes the first file of the chain again,
\* or cannot be read.
ChainEnds == {"plain", "dangling", "cycle", "unreadable"}

\* A chain of n files: each of the first n - 1 holds one include directive,
\* written in the given form, whose target is the next file.
ChainFs(n, form, end) ==
    [f \in {ChainFile(k) : k \in 1..n} |->
        LET k == CHOOSE j \in 1..n : ChainFile(j) = f
            directive(t) == <<IncludeLine([file |-> t, form |-> form])>>
        IN  IF k < n
            THEN [exists |-> TRUE, readable |-> TRUE,
                  content |-> directive(ChainFile(k + 1))]
            ELSE CASE end = "plain" ->
                        [exists |-> TRUE, readable |-> TRUE,
                         content |-> <<TextLine>>]
                   [] end = "dangling" ->
                        [exists |-> TRUE, readable |-> TRUE,
                         content |-> directive(ChainFile(n + 1))]
                   [] end = "cycle" ->
                        [exists |-> TRUE, readable |-> TRUE,
                         content |-> directive(ChainFile(1))]
                   [] OTHER -> Unreadable]

\* find_includes of the first file of a chain of up to MaxChain files: the
\* include graphs on which the walk goes as deep as its depth limit.
InitChain ==
    /\ op = "includes"
    /\ pc = "start"
    /\ file_path \in {[file |-> ChainFile(1), form |-> fm] : fm \in PathForms}
    /\ flag \in BOOLEAN
    /\ query = <<>>
    /\ \E n \in 1..MaxChain, form \in {"rel", "alt"}, end \in ChainEnds :
          fs = ChainFs(n, form, end)
    /\ reads = <<>>
    /\ outcome = NoResult
    /\ NoHierLocals
    /\ NoIncLocals
    /\ NoSearchLocals

Texts(n) == SeqsUpTo(Chars \cup {NL}, n)

\* The transport rejects an empty query; the queries are words of letters.
Queries == SeqsUpTo({"a", "A"}, MaxQueryLen) \ {<<>>}

\* search_content of file A, or of the files A and B under the working
\* directory; the texts hold at most MaxChars characters together.
InitSearch ==
    /\ op = "search"
    /\ pc = "start"
    /\ flag \in BOOLEAN
    /\ query \in Queries
    /\ \/ /\ file_path = CanonPath("A")
          /\ \E a \in FileStates(Texts(MaxChars)) : fs = [f \in {"A"} |-> a]
       \/ /\ file_path = NoPath
          /\ \E a \in FileStates(Texts(MaxChars)) :
             \E b \in FileStates(Texts(MaxChars - Len(a.content))) :
                fs = [f \in Files |-> IF f = "A" THEN a ELSE b]
    /\ reads = <<>>
    /\ outcome = NoResult
    /\ NoHierLocals
    /\ NoIncLocals
    /\ NoSearchLocals

AttrNames  == {"author", "email", "revnumber", "revdate", "title"}
AttrValues == {"", "v1", "v2"}

MetaLines ==
    {TextLine, BlankLine, HeadingLine(1)} \cup
    {AttrLine(n, v) : n \in AttrNames, v \in AttrValues}

InitMetadata ==
    /\ op = "metadata"
    /\ pc = "start"
    /\ file_path = CanonPath("A")
    /\ flag = FALSE
    /\ query = <<>>
    /\ \E a \in FileStates(SeqsUpTo(MetaLines, MaxMetaLines)) :
          fs = [f \in {"A"} |-> a]
    /\ reads = <<>>
    /\ outcome = NoResult
    /\ NoHierLocals
    /\ NoIncLocals
    /\ NoSearchLocals

NextHier == BuildStep \/ BuildReturn \/ AnalyzeCall \/ AnalyzeReturn

InitHier == InitBuild \/ InitAnalyze

SpecHier == InitHier /\ [][NextHier]_vars

NextInc == IncludesCall \/ WalkEnter \/ WalkDirective \/ WalkReturn

SpecInc == InitIncludes /\ [][NextInc]_vars

NextSearch == SearchCall \/ SearchFile \/ SearchReturn

SpecSearch == InitSearch /\ [][NextSearch]_vars

SpecMeta == InitMetadata /\ [][ExtractMetadata]_vars

\* One call of any entry point.
Init == InitHier \/ InitIncludes \/ InitMetadata \/ InitSearch

Next == NextHier \/ NextInc \/ ExtractMetadata \/ NextSearch

Spec == Init /\ [][Next]_vars

\* find_includes on the small include graphs and on the chains.
SpecIncDeep == (InitIncludes \/ InitChain) /\ [][NextInc]_vars

\* A call that has started runs on: nothing suspends it but its own reads.
FairSpecInc == SpecInc /\ WF_vars(NextInc)

-----------------------------------------------------------------------------
(* Properties of _build_hierarchy                                          *)

\* _build_hierarchy has returned its forest to the caller, directly or as
\* the "structure" of analyze_document_structure's result.
BuilderReturned ==
    /\ pc = "done"
    /\ outcome.kind = "return"
    /\ \/ op = "build"
       \/ op = "analyze" /\ "structure" \in DOMAIN outcome.value

ReturnedForest ==
    IF op = "build" THEN outcome.value ELSE outcome.value.structure

\* The nodes of a forest, and the (node, parent) pairs of a forest whose
\* roots hang under p; nodes are named by their line numbers, 0 names the
\* top level.
RECURSIVE AllNodes(_)
AllNodes(forest) ==
    UNION {{forest[i]} \cup AllNodes(forest[i].children) :
              i \in 1..Len(forest)}

RECURSIVE ParentPairs(_, _)
ParentPairs(forest, p) ==
    UNION {{<<forest[i].line_number, p>>} \cup
           ParentPairs(forest[i].children, forest[i].line_number) :
              i \in 1..Len(forest)}

\* The nearest heading before the k-th with a strictly smaller level.
NearestSmaller(k) ==
    LET smaller == {j \in 1..(k - 1) : headings[j].level < headings[k].level}
    IN  IF smaller = {} THEN 0 ELSE headings[Max(smaller)].line_number

\* C1: in the forest _build_hierarchy returns, each node's parent is the
\* nearest preceding heading with a strictly smaller level, a heading with
\* no such predecessor is a top-level root, and no node has a descendant
\* whose level is less than or equal to its own.
C1_NearestSmallerParent ==
    BuilderReturned =>
        /\ ParentPairs(ReturnedForest, 0) =
              {<<headings[k].line_number, NearestSmaller(k)>> :
                  k \in 1..Len(headings)}
        /\ \A n \in AllNodes(ReturnedForest) :
              \A d \in AllNodes(n.children) : d.level > n.level

\* A returned forest in which some heading's parent is not the heading
\* right before it, and some heading after the first is a root.
C1_Witness ==
    /\ BuilderReturned
    /\ \E k \in 2..Len(headings) :
          /\ NearestSmaller(k) # 0
          /\ NearestSmaller(k) # headings[k - 1].line_number
    /\ \E k \in 2..Len(headings) : NearestSmaller(k) = 0

StripChildren(node) == [k \in DOMAIN node \ {"children"} |-> node[k]]

\* Pre-order walk: a node, then its children left to right.
RECURSIVE PreOrder(_)
PreOrder(forest) ==
    Concat([i \in 1..Len(forest) |->
               <<StripChildren(forest[i])>> \o PreOrder(forest[i].children)])

\* C2: the pre-order walk of the returned forest is the input heading
\* sequence, each heading once and in the original order, so the number of
\* nodes is total_headings.
C2_PreOrderIsInput ==
    BuilderReturned =>
        /\ PreOrder(ReturnedForest) = headings
        /\ op = "analyze" =>
              outcome.value.total_headings = Len(PreOrder(ReturnedForest))

\* A returned forest with a root that has two children, one of which has a
\* child of its own, followed by a second root.
C2_Witness ==
    /\ BuilderReturned
    /\ Len(ReturnedForest) >= 2
    /\ \E n \in AllNodes(ReturnedForest) : Len(n.children) >= 2

NonDecreasing ==
    \A k \in 2..Len(headings) : headings[k].level >= headings[k - 1].level

StrictlyIncreasing ==
    \A k \in 2..Len(headings) : headings[k].level > headings[k - 1].level

SingleChain(forest) ==
    /\ Len(forest) = 1
    /\ \A n \in AllNodes(forest) : Len(n.children) <= 1

\* C10 as claimed: headings whose levels never decrease (each level greater
\* than or equal to the previous one) come back as a single chain, one root
\* and at most one child per node.
C10_Original ==
    (BuilderReturned /\ NonDecreasing) => SingleChain(ReturnedForest)

\* C10 as amended: a non-empty heading sequence whose levels strictly
\* increase from one heading to the next comes back as a single chain, one
\* root and at most one child per node.
C10_StrictlyIncreasingChain ==
    (BuilderReturned /\ headings # <<>> /\ StrictlyIncreasing)
        => SingleChain(ReturnedForest)

C10_Witness ==
    /\ BuilderReturned
    /\ Len(headings) >= 3
    /\ StrictlyIncreasing

-----------------------------------------------------------------------------
(* Properties of find_includes                                             *)

\* find_includes has returned a result that is not an error.
IncludesReturned ==
    /\ op = "includes"
    /\ pc = "done"
    /\ outcome.kind = "return"
    /\ "includes" \in DOMAIN outcome.value

HasNested(r) == "nested_includes" \in DOMAIN r

\* C3: find_includes with recursive=true returns on every file system and
\* every include graph, cyclic ones included, and the walk never stands
\* deeper than the number of distinct paths it has entered.
C3_WalkTerminates ==
    /\ <>(pc = "done")
    /\ [](\A k \in DOMAIN callStack :
             callStack[k].depth <= Cardinality(processed_files))

\* A returned walk of a cycle: A includes B, B includes A, and the walk has
\* gone into both.
C3_Witness ==
    /\ IncludesReturned
    /\ flag
    /\ \E k \in DOMAIN outcome.value.includes :
          LET r == outcome.value.includes[k]
          IN  /\ r.resolved_path.file = "B"
              /\ HasNested(r)
              /\ \E j \in DOMAIN r.nested_includes :
                    /\ r.nested_includes[j].resolved_path.file = "A"
                    /\ HasNested(r.nested_includes[j])

\* The files the walk has visited: those read_text was called on.
VisitedFiles == {reads[k] : k \in DOMAIN reads}

\* C4: with recursive=true every file the walk visited appears exactly once
\* in processed_files, however the top-level file_path is written.
C4_VisitedOnce ==
    (IncludesReturned /\ flag) =>
        \A f \in VisitedFiles :
            Cardinality({p \in outcome.value.processed_files : p.file = f}) = 1

-----------------------------------------------------------------------------
(* Properties of search_content                                            *)

\* search_content has returned a result that is not an error.
SearchReturned ==
    /\ op = "search"
    /\ pc = "done"
    /\ outcome.kind = "return"
    /\ "results" \in DOMAIN outcome.value

\* The query stands at offset pos of line (letters compared without case
\* unless case_sensitive).
FoldCase(str) == [j \in 1..Len(str) |-> IF flag THEN str[j] ELSE Lower(str[j])]

OccursAt(line, pos) ==
    /\ pos + Len(query) <= Len(line)
    /\ FoldCase(SubSeq(line, pos + 1, pos + Len(query))) = FoldCase(query)

ContainsQuery(line) == \E pos \in 0..Len(line) : OccursAt(line, pos)

\* spans are the occurrences of the query in line counted without overlap
\* from the left (as str.count counts them): each span is an occurrence,
\* and no occurrence starts between the end of one span and the start of
\* the next, nor after the last.
CountedOccurrences(line, spans) ==
    /\ \A j \in 1..Len(spans) :
          LET prevEnd == IF j = 1 THEN 0 ELSE spans[j - 1][2]
          IN  /\ spans[j][2] = spans[j][1] + Len(query)
              /\ spans[j][1] >= prevEnd
              /\ OccursAt(line, spans[j][1])
              /\ \A pos \in prevEnd..(spans[j][1] - 1) : ~OccursAt(line, pos)
    /\ LET lastEnd == IF spans = <<>> THEN 0 ELSE spans[Len(spans)][2]
       IN  \A pos \in lastEnd..Len(line) : ~OccursAt(line, pos)

\* The (file, line number) pairs of the lines that contain the query, file
\* by file in the order searched, by increasing line number within a file.
MatchingLines ==
    Concat([f \in 1..Len(files_searched) |->
        LET lines == SplitLines(fs[files_searched[f].file].content)
            hit   == SelectSeq(LineNumbers(lines),
                               LAMBDA i : ContainsQuery(lines[i]))
        IN  [k \in 1..Len(hit) |-> <<files_searched[f], hit[k]>>]])

\* C9: search_content returns one Search Result per line that contains the
\* query, with one span per occurrence (counted without overlap) in
\* match_positions; total_matches is the number of such lines over all
\* files searched; the results are in file order, then line order.
C9_OneResultPerLine ==
    SearchReturned =>
        LET rs == outcome.value.results
        IN  /\ [k \in 1..Len(rs) |-> <<rs[k].file, rs[k].line_number>>]
                  = MatchingLines
            /\ outcome.value.total_matches = Len(MatchingLines)
            /\ outcome.value.files_searched = files_searched
            /\ \A k \in 1..Len(rs) :
                  /\ Len(rs[k].match_positions) >= 1
                  /\ CountedOccurrences(
                         SplitLines(fs[rs[k].file.file].content)[rs[k].line_number],
                         rs[k].match_positions)

\* A search of two files with results in both, one of them a line that
\* holds the query twice.
C9_Witness ==
    /\ SearchReturned
    /\ Len(outcome.value.files_searched) = 2
    /\ \E j, k \in DOMAIN outcome.value.results :
          /\ outcome.value.results[j].file # outcome.value.results[k].file
          /\ Len(outcome.value.results[j].match_positions) = 2

-----------------------------------------------------------------------------
(* Error handling of the entry points                                      *)

EntryPoints == {"analyze", "includes", "metadata", "search"}

\* An entry point was called with a file_path and has ended.
EntryEnded == op \in EntryPoints /\ file_path # NoPath /\ pc = "done"

\* C6: an entry point called with a path that does not exist returns a
\* result that is only the error "File not found: <path>", reads no file
\* and raises nothing.
C6_NotFound ==
    (EntryEnded /\ ~fs[file_path.file].exists) =>
        /\ outcome = [kind |-> "return",
                      value |-> [error |-> <<"File not found: ", file_path>>]]
        /\ reads = <<>>

\* search_content ended on a missing file_path.
C6_Witness ==
    /\ EntryEnded
    /\ ~fs[file_path.file].exists
    /\ op = "search"

\* C7: an entry point whose file exists but cannot be read returns a result
\* carrying an error string, and raises nothing.
C7_ReadFailureIsError ==
    (EntryEnded /\ fs[file_path.file].exists /\ ~fs[file_path.file].readable) =>
        /\ outcome.kind = "return"
        /\ "error" \in DOMAIN outcome.value

-----------------------------------------------------------------------------
(* Isolation of per-file failures                                          *)

\* The walk of find_includes on a file system where every file that exists
\* can be read, a file that cannot being read as a file with no includes:
\* [incs |-> the Include Records, pf |-> the paths processed].
RECURSIVE ReadableWalk(_, _, _)
RECURSIVE ReadableLoop(_, _, _, _, _, _)
ReadableWalk(path, depth, pf) ==
    IF path \in pf THEN [incs |-> <<>>, pf |-> pf]
    ELSE LET doc  == fs[path.file].content
             dirs == SelectSeq(LineNumbers(doc),
                               LAMBDA n : doc[n].kind = "include")
         IN  ReadableLoop(path, depth, dirs, 1, <<>>, pf \cup {path})

ReadableLoop(path, depth, dirs, i, acc, pf) ==
    IF i > Len(dirs) THEN [incs |-> acc, pf |-> pf]
    ELSE LET info == IncludeInfo(path, depth, fs[path.file].content, dirs[i])
         IN  IF flag /\ info.exists /\ depth < MaxDepth
             THEN LET sub == ReadableWalk(info.resolved_path, depth + 1, pf)
                  IN  ReadableLoop(path, depth, dirs, i + 1,
                                   Append(acc, WithNested(info, sub.incs)),
                                   sub.pf)
             ELSE ReadableLoop(path, depth, dirs, i + 1, Append(acc, info), pf)

\* All Include Records of a tree of records.
RECURSIVE AllRecords(_)
AllRecords(incs) ==
    UNION {{incs[k]} \cup (IF HasNested(incs[k])
                           THEN AllRecords(incs[k].nested_includes)
                           ELSE {}) : k \in 1..Len(incs)}

\* C8: one unreadable file does not abort a multi-file operation nor change
\* what the other files contribute.  A directory-wide search returns a
\* result whose files_searched are exactly the readable files, and whose
\* results are those of each readable file, none from an unreadable one.
\* A recursive find_includes of an existing file returns a result in which
\* an included file that fails to load has an empty nested_includes, and
\* the whole tree is the one of the same walk with every unreadable file
\* taken as a file without includes.
C8_FailuresIsolated ==
    /\ (op = "search" /\ pc = "done" /\ file_path = NoPath) =>
          /\ SearchReturned
          /\ LET rs       == outcome.value.results
                 searched == outcome.value.files_searched
             IN  /\ {searched[k] : k \in DOMAIN searched} =
                       {CanonPath(f) : f \in {g \in DOMAIN fs : fs[g].readable}}
                 /\ \A f \in DOMAIN fs :
                       SelectSeq(rs, LAMBDA r : r.file = CanonPath(f)) =
                           IF fs[f].readable
                           THEN FileResults(CanonPath(f), fs[f].content)
                           ELSE <<>>
    /\ (op = "includes" /\ pc = "done" /\ flag /\ fs[file_path.file].exists) =>
          /\ IncludesReturned
          /\ outcome.value.includes = ReadableWalk(file_path, 0, {}).incs
          /\ outcome.value.processed_files = ReadableWalk(file_path, 0, {}).pf
          /\ \A r \in AllRecords(outcome.value.includes) :
                (HasNested(r) /\ ~fs[r.resolved_path.file].readable)
                    => r.nested_includes = <<>>

\* A walk that met an unreadable included file between two other
\* directives.
C8_WitnessIncludes ==
    /\ IncludesReturned
    /\ flag
    /\ Len(outcome.value.includes) >= 2
    /\ \E r \in AllRecords(outcome.value.includes) :
          HasNested(r) /\ ~fs[r.resolved_path.file].readable

\* A directory-wide search whose first file cannot be read and whose
\* second file has a matching line.
C8_Witness ==
    /\ SearchReturned
    /\ file_path = NoPath
    /\ Len(files_to_search) = 2
    /\ ~fs[files_to_search[1].file].readable
    /\ outcome.value.results # <<>>

-----------------------------------------------------------------------------
(* Properties of extract_metadata                                          *)

\* extract_metadata has returned a result that is not an error.
MetadataReturned ==
    /\ op = "metadata"
    /\ pc = "done"
    /\ outcome.kind = "return"
    /\ "attributes" \in DOMAIN outcome.value

\* The attribute declarations of a name: the `:name: value` lines of the
\* document that carry it, in document order.
Declarations(doc, name) ==
    SelectSeq(LineNumbers(doc),
              LAMBDA i : doc[i].kind = "attr" /\ doc[i].name = name)

DeclaredNames(doc) ==
    {doc[i].name : i \in {j \in DOMAIN doc : doc[j].kind = "attr"}}

\* The value of the last declaration of a name, "" when there is none.
LastDeclared(doc, name) ==
    IF Declarations(doc, name) = <<>> THEN ""
    ELSE doc[Last(Declarations(doc, name))].value

\* C11: the Attribute Map extract_metadata returns holds, for every name
\* declared in the document, the value of the name's last declaration, and
\* author, email, revision and date are the last declared values of
\* author, email, revnumber and revdate ("" when never declared).
C11_LastDeclarationWins ==
    MetadataReturned =>
        LET doc == fs[file_path.file].content
        IN  /\ outcome.value.attributes =
                  [name \in DeclaredNames(doc) |-> LastDeclared(doc, name)]
            /\ outcome.value.author   = LastDeclared(doc, "author")
            /\ outcome.value.email    = LastDeclared(doc, "email")
            /\ outcome.value.revision = LastDeclared(doc, "revnumber")
            /\ outcome.value.date     = LastDeclared(doc, "revdate")

-----------------------------------------------------------------------------
(* Depth and nesting of Include Records                                    *)

\* The target of an Include Record exists in the file system.
TargetExists(r) ==
    r.resolved_path.file \in DOMAIN fs /\ fs[r.resolved_path.file].exists

\* C12: in a find_includes result an Include Record carries nested_includes
\* exactly when recursive is true, its target exists and its depth is below
\* 10; the records of its nested_includes are one deeper and have its
\* resolved_path as parent_file; every record's depth is within 0..10.
C12_NestingAndDepth ==
    IncludesReturned =>
        \A r \in AllRecords(outcome.value.includes) :
            /\ HasNested(r) <=> (flag /\ TargetExists(r) /\ r.depth < 10)
            /\ HasNested(r) =>
                  \A j \in DOMAIN r.nested_includes :
                      /\ r.nested_includes[j].depth = r.depth + 1
                      /\ r.nested_includes[j].parent_file = r.resolved_path
            /\ 0 <= r.depth /\ r.depth <= 10

\* A recursive walk that reached the depth limit: a record at depth 10
\* whose target exists and that carries no nested_includes, under a record
\* at depth 9 that carries them.
C12_Witness ==
    /\ IncludesReturned
    /\ flag
    /\ \E r \in AllRecords(outcome.value.includes) :
          /\ r.depth = 9
          /\ HasNested(r)
          /\ \E j \in DOMAIN r.nested_includes :
                /\ r.nested_includes[j].depth = 10
                /\ TargetExists(r.nested_includes[j])
                /\ ~HasNested(r.nested_includes[j])

-----------------------------------------------------------------------------
(* Section content of analyze_document_structure                           *)

\* analyze_document_structure has returned a structure with include_content
\* set.
ContentReturned ==
    /\ op = "analyze"
    /\ flag
    /\ pc = "done"
    /\ outcome.kind = "return"
    /\ "structure" \in DOMAIN outcome.value

\* The lines of a content.
ContentLines(h) == {h.content[i] : i \in DOMAIN h.content}

\* The first heading line (markers, white space and a title) after line n
\* whose level is at most that of the heading on line n; the line after the
\* last when there is none.
SectionEnd(doc, n) ==
    LET later == {m \in DOMAIN doc :
                     /\ m > n
                     /\ doc[m].kind = "heading"
                     /\ doc[m].level <= doc[n].level}
    IN  IF later = {} THEN Len(doc) + 1
        ELSE CHOOSE m \in later : \A k \in later : m <= k

\* The text between two lines with leading and trailing white space
\* removed: from the first to the last line in between that is not blank.
Trimmed(doc, after, before) ==
    LET body == {m \in (after + 1)..(before - 1) : doc[m].kind # "blank"}
    IN  IF body = {} THEN <<>>
        ELSE [i \in 1..(Max(body) - Min(body) + 1) |-> Min(body) + i - 1]

\* C13: with include_content set, the content of every returned heading H
\* that stands on a heading line is the text from the end of H's line to
\* the start of the first later heading line of a level at most H's, or to
\* the end of the document, trimmed; it holds the heading line and the
\* content of every heading below H in the tree, and no line of a later
\* heading of a level at most H's.
C13_ContentExtent ==
    ContentReturned =>
        LET doc == fs[file_path.file].content
        IN  \A h \in AllNodes(outcome.value.structure) :
               doc[h.line_number].kind = "heading" =>
                  /\ h.content =
                        Trimmed(doc, h.line_number,
                                SectionEnd(doc, h.line_number))
                  /\ \A d \in AllNodes(h.children) :
                        /\ d.line_number \in ContentLines(h)
                        /\ ContentLines(d) \subseteq ContentLines(h)
                  /\ \A m \in DOMAIN doc :
                        (/\ m > h.line_number
                         /\ doc[m].kind = "heading"
                         /\ doc[m].level <= h.level)
                            => \A c \in ContentLines(h) : c < m

-----------------------------------------------------------------------------
(* The stack of open nodes of _build_hierarchy                             *)

\* _build_hierarchy is running or has run, and has processed a heading.
HeadingProcessed ==
    /\ op \in {"build", "analyze"}
    /\ pc \in {"build", "done"}
    /\ hIdx > 1

\* The shape of the stack after a heading is processed: levels strictly
\* increasing from bottom to top, the bottom the last root, each node the
\* last child of the node below it, the top the heading just added, and no
\* node on the stack twice.
StackShape ==
    HeadingProcessed =>
        /\ stack # <<>>
        /\ \A i \in 1..(Len(stack) - 1) :
              /\ headings[stack[i]].level < headings[stack[i + 1]].level
              /\ stack[i] < stack[i + 1]
              /\ children[stack[i]] # <<>>
              /\ Last(children[stack[i]]) = stack[i + 1]
        /\ hierarchy # <<>>
        /\ stack[1] = Last(hierarchy)
        /\ Last(stack) = hIdx - 1

\* What processing a heading does to the stack: some nodes are popped off
\* its top and the heading, which was never on it, is pushed; between two
\* headings the stack stays as it is, and the heading records given are
\* never changed.
StackStep ==
    pc = "build" =>
        /\ headings' = headings
        /\ IF hIdx' = hIdx
           THEN stack' = stack
           ELSE /\ hIdx' = hIdx + 1
                /\ \A i \in DOMAIN stack : stack[i] < hIdx
                /\ \E k \in 0..Len(stack) :
                      stack' = Append(SubSeq(stack, 1, k), hIdx)

\* C14: after each heading is processed the stack of open nodes has
\* strictly increasing levels from bottom to top, its bottom is the last
\* top-level root, each element is the last child of the one below it and
\* its top is the heading just added; each heading is pushed exactly once,
\* when it is processed, and once popped never returns; the heading
\* records given are not modified.
C14_StackDiscipline == [](StackShape) /\ [][StackStep]_vars

\* A stack of three open nodes under the second root: nodes were popped
\* and the stack grew again.
C14_Witness ==
    /\ HeadingProcessed
    /\ Len(stack) = 3
    /\ Len(hierarchy) = 2

-----------------------------------------------------------------------------
(* Match positions of search_content                                       *)

\* C15: in every Search Result, each (start, end) of match_positions, taken
\* as character offsets into the `line` of the same result, delimits an
\* occurrence of the query (letters compared without case unless
\* case_sensitive), also when the line read begins with white space.
C15_PositionsIndexLine ==
    SearchReturned =>
        \A k \in DOMAIN outcome.value.results :
            LET r == outcome.value.results[k]
            IN  \A j \in DOMAIN r.match_positions :
                   /\ r.match_positions[j][2] =
                         r.match_positions[j][1] + Len(query)
                   /\ OccursAt(r.line, r.match_positions[j][1])

====
